---- MODULE Spec2Model ----
(***************************************************************************)
(* State-machine model of logs_ingest/main.py: one invocation of           *)
(* process_logs over a batch of Event Hub events, with the per-record      *)
(* fault boundary, the two age checks (event and record), the send and     *)
(* the finalization block.  Collaborators that live outside main.py        *)
(* (mapping, filtering, metadata engine, send_logs, SelfMonitoring) are    *)
(* modelled by their observable outcome, drawn as an input of the step     *)
(* that calls them.                                                        *)
(*                                                                         *)
(* Spec follows one invocation; it leaves the counts kept by the logging   *)
(* module out.  SpecAge and SpecRecord follow single calls of is_too_old,  *)
(* deserialize_properties and process_record over wider inputs and         *)
(* configured limits.  SpecConc follows two invocations interleaved in one *)
(* process, by what they share.                                            *)
(***************************************************************************)
EXTENDS Integers, Sequences, FiniteSets, TLC

\* ------------------------------------------------------------------ bounds

\* Largest number of events in one batch.
MaxEvents == 2
\* Largest number of records in one batch (over all its events).
MaxRecords == 3

\* The longest content of a record handed to process_record on its own.
MaxContent == 14

\* --------------------------------------------------------- configuration

\* record_age_limit is read from DYNATRACE_LOG_INGEST_MAX_RECORD_AGE at import
\* (86400 when unset); the value a batch is processed under.  The threshold
\* of is_too_old is record_age_limit - 60, here 1 second.
AgeLimits == {61}

\* content_length_limit as configured through
\* DYNATRACE_LOG_INGEST_CONTENT_MAX_LENGTH (8192 when the variable is unset).
content_length_limit == 12

\* attribute_value_length_limit as configured through
\* DYNATRACE_LOG_INGEST_ATTRIBUTE_VALUE_MAX_LENGTH (250 when the variable is
\* unset).
attribute_value_length_limit == 5

DYNATRACE_LOG_INGEST_CONTENT_MARK_TRIMMED ==
    <<"[", "T", "R", "U", "N", "C", "A", "T", "E", "D", "]">>

\* Values of SELF_MONITORING_ENABLED in the environment ("unset": no such key).
FlagValues == {"unset", "True", "true", "TRUE"}

\* ------------------------------------------------------------- timestamps

\* A timestamp handed to is_too_old:
\*   none        None
\*   empty       the empty string
\*   unparseable a value dateutil's parser.parse raises on
\*   naive       a string parser.parse accepts but that carries no UTC offset,
\*               so that subtracting it from datetime.now(timezone.utc) raises
\*   aware       a string with an offset, denoting the instant t (seconds)
\* Times are the instants of the timestamps of a batch: with the clock at 0
\* or 1 and a limit of 61 they are 1 to 3 seconds old, around the threshold
\* of 1 second.
Times == {-2, -1}

\* The instants the wall clock shows during one invocation.
Clock == {0, 1}

NoneTs == [kind |-> "none", t |-> 0]

Aware(t) == [kind |-> "aware", t |-> t]

\* enqueued_time of an event: None (set |-> FALSE) or an instant (whole
\* seconds).
NoEnqueuedTime == [set |-> FALSE, t |-> 0]

EnqueuedTimes ==
    {NoEnqueuedTime} \cup {[set |-> TRUE, t |-> t] : t \in Times}

\* Line 61: the ISO string with a trailing Z (always parseable and aware), or
\* None.  Instants are whole seconds, which replace(microsecond=0) keeps.
EventTimestamp(enqueued_time) ==
    IF enqueued_time.set THEN Aware(enqueued_time.t) ELSE NoneTs

\* ------------------------------------------------------------ is_too_old

\* is_too_old with >= for the > of line 106.
is_too_old_at_threshold(timestamp, clock, limit) ==
    IF timestamp.kind \in {"none", "empty"}
    THEN [ret |-> FALSE, too_old_records |-> 0, parsing_errors |-> 0]
    ELSE IF timestamp.kind \in {"unparseable", "naive"}
    THEN [ret |-> FALSE, too_old_records |-> 0, parsing_errors |-> 1]
    ELSE IF clock - timestamp.t >= limit - 60
    THEN [ret |-> TRUE, too_old_records |-> 1, parsing_errors |-> 0]
    ELSE [ret |-> FALSE, too_old_records |-> 0, parsing_errors |-> 0]

\* is_too_old answering True from the handler of lines 110-113.
is_too_old_failing_closed(timestamp, clock, limit) ==
    IF timestamp.kind \in {"none", "empty"}
    THEN [ret |-> FALSE, too_old_records |-> 0, parsing_errors |-> 0]
    ELSE IF timestamp.kind \in {"unparseable", "naive"}
    THEN [ret |-> TRUE, too_old_records |-> 0, parsing_errors |-> 1]
    ELSE IF clock - timestamp.t > limit - 60
    THEN [ret |-> TRUE, too_old_records |-> 1, parsing_errors |-> 0]
    ELSE [ret |-> FALSE, too_old_records |-> 0, parsing_errors |-> 0]

\* The outcome of one call of is_too_old at wall-clock time clock: the value
\* returned and what the call adds to the two counters.
is_too_old(timestamp, clock, limit) ==
    IF timestamp.kind \in {"none", "empty"}
    THEN [ret |-> FALSE, too_old_records |-> 0, parsing_errors |-> 0]
    ELSE IF timestamp.kind \in {"unparseable", "naive"}
    THEN [ret |-> FALSE, too_old_records |-> 0, parsing_errors |-> 1]
    ELSE IF clock - timestamp.t > limit - 60
    THEN [ret |-> TRUE, too_old_records |-> 1, parsing_errors |-> 0]
    ELSE [ret |-> FALSE, too_old_records |-> 0, parsing_errors |-> 0]

\* ---------------------------------------------------------------- records

\* The configured limits of lines 35-36: attribute_value_length_limit and
\* content_length_limit.
VARIABLE limits

\* Python's s[:n]: the first n elements, or all but the last -n when n < 0.
SliceTo(s, n) ==
    IF n >= 0
    THEN SubSeq(s, 1, IF n < Len(s) THEN n ELSE Len(s))
    ELSE SubSeq(s, 1, IF Len(s) + n > 0 THEN Len(s) + n ELSE 0)

Letters ==
    <<"a", "b", "c", "d", "e", "f", "g", "h", "i", "j", "k", "l", "m",
      "n", "o", "p", "q", "r", "s", "t", "u", "v", "w", "x", "y", "z">>

\* A string of n characters, no two neighbours alike.
Text(n) == [i \in 1..n |-> Letters[((i - 1) % Len(Letters)) + 1]]

\* The properties aliases of line 118, in the order the forwarder tries them.
azure_properties_names == <<"properties", "Properties">>

\* The keys of a raw record that lines 117-136 look at: the properties
\* aliases, the empty string (the default of line 118) and the two resource id
\* fields.
RecordKeys == {"properties", "Properties", "", "resourceId", "_ResourceId"}

\* The value of an attribute: a string (type "str"), a number whose str() is
\* text (type "int"), or None (type "none").
Attr(type, text) == [type |-> type, text |-> text]

NoAttr == Attr("none", <<>>)

\* Python's truth value of an attribute value.
Truthy(value) ==
    \/ value.type = "str" /\ Len(value.text) > 0
    \/ value.type = "int" /\ value.text # <<"0">>

\* A raw record, by what process_record does with it:
\*   raw         the value at each key of RecordKeys: "absent" (no such key),
\*               "dict" (a nested object), "str_empty", "str_json" (a JSON
\*               string), "str_bad" (a string that is not JSON), or a resource
\*               id
\*   collab      "ok", or the collaborator that raises inside parse_record:
\*               "raise_early" (extract_severity), "raise_resource_id"
\*               (extract_resource_id_attributes), "raise_filter" (the filter),
\*               "raise_late" (metadata_engine.apply)
\*   filter      what log_filter.should_filter_out_record answers
\*   timestamp   the timestamp the mapping puts in the parsed record
\*   content     the content the mapping puts in the parsed record
\*   attribute   an attribute the mapping puts in the parsed record
\* Rec builds a record that has, of RecordKeys, at most the key "properties".
Rec(properties, collab, filter, timestamp, content) ==
    [raw |-> [k \in RecordKeys |->
                 IF k = "properties" THEN properties ELSE "absent"],
     collab |-> collab, filter |-> filter,
     timestamp |-> timestamp, content |-> content, attribute |-> NoAttr]

\* The records a batch is drawn from: one whose properties string is not
\* JSON, two on which a collaborator raises, one filtered out (the filter
\* answers before the late collaborators run), and four that parse, with a
\* stale, a boundary, an unparseable and no timestamp.
RecordInputs ==
    {Rec("str_bad", "ok", FALSE, NoneTs, Text(0)),
     Rec("dict", "raise_early", FALSE, NoneTs, Text(0)),
     Rec("absent", "raise_late", FALSE, NoneTs, Text(0)),
     Rec("str_json", "raise_late", TRUE, NoneTs, Text(0)),
     Rec("str_json", "ok", FALSE, Aware(-2), Text(content_length_limit + 1)),
     Rec("absent", "ok", FALSE, Aware(-1), Text(content_length_limit + 1)),
     Rec("dict", "ok", FALSE, [kind |-> "unparseable", t |-> 0],
         Text(content_length_limit)),
     Rec("str_empty", "ok", FALSE, NoneTs, Text(0))}

\* The value of record after a step that iterates no record.
NoRecord == Rec("no_record", "ok", FALSE, NoneTs, Text(0))

\* Line 118: the first alias that is a key of the record, "" when none is.
RECURSIVE first_alias(_, _)
first_alias(raw, i) ==
    IF i > Len(azure_properties_names) THEN ""
    ELSE IF raw[azure_properties_names[i]] # "absent"
    THEN azure_properties_names[i]
    ELSE first_alias(raw, i + 1)

\* deserialize_properties: the value at the key line 118 chooses (for a key
\* the record lacks, the default {} of line 119); a non-empty string there is
\* JSON-parsed into record["properties"]; json.loads raises on a string that
\* is not JSON.
deserialize_properties(record) ==
    LET properties_name == first_alias(record.raw, 1)
        properties == record.raw[properties_name]
    IN  IF properties = "str_bad"
        THEN [raised |-> "JSONDecodeError", record |-> record]
        ELSE IF properties = "str_json"
        THEN [raised |-> "none",
              record |-> [record EXCEPT !.raw["properties"] = "dict"]]
        ELSE [raised |-> "none", record |-> record]

\* Lines 153-161: the content of the parsed record and what is appended to
\* too_long_content_size.
SanitizeContent(content) ==
    IF Len(content) > 0 /\ Len(content) > limits.content
    THEN [content |->
              SliceTo(content,
                      limits.content
                        - Len(DYNATRACE_LOG_INGEST_CONTENT_MARK_TRIMMED))
                \o DYNATRACE_LOG_INGEST_CONTENT_MARK_TRIMMED,
          too_long |-> <<Len(content)>>]
    ELSE [content |-> content, too_long |-> <<>>]

\* Lines 148-151 for one attribute value: a truthy value becomes its str(),
\* cut to the attribute limit.
SanitizeAttribute(value) ==
    IF Truthy(value)
    THEN Attr("str", SliceTo(value.text, limits.attribute))
    ELSE value

\* Lines 146-161 on a parsed record: the record after them and what they
\* append to too_long_content_size.
AttributeSanitizer(parsed) ==
    LET c == SanitizeContent(parsed.content)
    IN  [parsed |-> [parsed EXCEPT
                        !.cloud_provider = SanitizeAttribute(@),
                        !.attribute = SanitizeAttribute(@),
                        !.content = c.content],
         too_long |-> c.too_long]

Azure == Attr("str", <<"A", "z", "u", "r", "e">>)

\* The value of parsed when parse_record returns None or raises.
NoParsed ==
    [rid |-> <<0, 0>>, cloud_provider |-> Azure, attribute |-> NoAttr,
     timestamp |-> NoneTs, content |-> <<>>]

\* A step parse_record takes: the collaborator it calls and the argument.
Step(fn, arg) == [fn |-> fn, arg |-> arg]

\* Lines 131-136 with the two fields tried in the other order.
resource_id_steps_underscore_first(record) ==
    IF record.raw["_ResourceId"] # "absent"
    THEN <<Step("extract_resource_id_attributes", record.raw["_ResourceId"])>>
    ELSE IF record.raw["resourceId"] # "absent"
    THEN <<Step("extract_resource_id_attributes", record.raw["resourceId"])>>
    ELSE <<>>

\* Lines 131-136: the calls of extract_resource_id_attributes.
resource_id_steps(record) ==
    IF record.raw["resourceId"] # "absent"
    THEN <<Step("extract_resource_id_attributes", record.raw["resourceId"])>>
    ELSE IF record.raw["_ResourceId"] # "absent"
    THEN <<Step("extract_resource_id_attributes", record.raw["_ResourceId"])>>
    ELSE <<>>

\* parse_record with the filter asked last, after lines 142-161 have run.
parse_record_filtering_last(record, rid) ==
    LET severity == <<Step("extract_severity", "")>>
        resource == resource_id_steps(record)
        filter == <<Step("should_filter_out_record", "")>>
        apply == <<Step("metadata_engine.apply", "")>>
        infer == <<Step("infer_monitored_entity_id", "")>>
        sanitize == <<Step("sanitize", "")>>
        s == AttributeSanitizer(
                 [rid |-> rid, cloud_provider |-> Azure,
                  attribute |-> record.attribute,
                  timestamp |-> record.timestamp, content |-> record.content])
        failed(steps) ==
            [raised |-> "Exception", is_none |-> TRUE, parsed |-> NoParsed,
             too_long |-> <<>>, trace |-> steps]
    IN  IF record.collab = "raise_early" THEN failed(severity)
        ELSE IF record.collab = "raise_resource_id" /\ resource # <<>>
        THEN failed(severity \o resource)
        ELSE IF record.collab = "raise_late"
        THEN failed(severity \o resource \o apply)
        ELSE IF record.collab = "raise_filter"
        THEN failed(severity \o resource \o apply \o infer \o sanitize
                      \o filter)
        ELSE IF record.filter
        THEN [raised |-> "none", is_none |-> TRUE, parsed |-> NoParsed,
              too_long |-> s.too_long,
              trace |-> severity \o resource \o apply \o infer \o sanitize
                          \o filter]
        ELSE [raised |-> "none", is_none |-> FALSE, parsed |-> s.parsed,
              too_long |-> s.too_long,
              trace |-> severity \o resource \o apply \o infer \o sanitize
                          \o filter]

\* parse_record: an exception of a collaborator (raised), None for a filtered
\* record (is_none), or the parsed record; too_long is what the call appends
\* to too_long_content_size and trace the steps it takes, in order.  rid is
\* the record's place in the batch (event number, record number in the event).
parse_record(record, rid) ==
    LET severity == <<Step("extract_severity", "")>>
        resource == resource_id_steps(record)
        filter == <<Step("should_filter_out_record", "")>>
        apply == <<Step("metadata_engine.apply", "")>>
        infer == <<Step("infer_monitored_entity_id", "")>>
        sanitize == <<Step("sanitize", "")>>
        s == AttributeSanitizer(
                 [rid |-> rid, cloud_provider |-> Azure,
                  attribute |-> record.attribute,
                  timestamp |-> record.timestamp, content |-> record.content])
        failed(steps) ==
            [raised |-> "Exception", is_none |-> TRUE, parsed |-> NoParsed,
             too_long |-> <<>>, trace |-> steps]
    IN  IF record.collab = "raise_early" THEN failed(severity)
        ELSE IF record.collab = "raise_resource_id" /\ resource # <<>>
        THEN failed(severity \o resource)
        ELSE IF record.collab = "raise_filter"
        THEN failed(severity \o resource \o filter)
        ELSE IF record.filter
        THEN [raised |-> "none", is_none |-> TRUE, parsed |-> NoParsed,
              too_long |-> <<>>, trace |-> severity \o resource \o filter]
        ELSE IF record.collab = "raise_late"
        THEN failed(severity \o resource \o filter \o apply)
        ELSE [raised |-> "none", is_none |-> FALSE, parsed |-> s.parsed,
              too_long |-> s.too_long,
              trace |-> severity \o resource \o filter \o apply \o infer
                          \o sanitize]

\* process_record without the return of line 97: a record found too old is
\* appended all the same.
process_record_keeping_stale(payload, record, rid, clock, limit) ==
    LET d == deserialize_properties(record)
        p == parse_record(d.record, rid)
        old == is_too_old(p.parsed.timestamp, clock, limit)
        nothing == [raised |-> "none", dt_payload |-> payload,
                    too_old_records |-> 0, parsing_errors |-> 0,
                    too_long |-> <<>>, age_checks |-> 0, trace |-> <<>>]
    IN  IF d.raised # "none" THEN [nothing EXCEPT !.raised = d.raised]
        ELSE IF p.raised # "none"
        THEN [nothing EXCEPT !.raised = p.raised, !.trace = p.trace]
        ELSE IF p.is_none
        THEN [nothing EXCEPT !.trace = p.trace, !.too_long = p.too_long]
        ELSE [raised |-> "none",
              dt_payload |-> Append(payload, p.parsed),
              too_old_records |-> old.too_old_records,
              parsing_errors |-> old.parsing_errors,
              too_long |-> p.too_long, age_checks |-> 1, trace |-> p.trace]

\* process_record putting the parsed record at the head of the payload.
process_record_prepending(payload, record, rid, clock, limit) ==
    LET d == deserialize_properties(record)
        p == parse_record(d.record, rid)
        old == is_too_old(p.parsed.timestamp, clock, limit)
        nothing == [raised |-> "none", dt_payload |-> payload,
                    too_old_records |-> 0, parsing_errors |-> 0,
                    too_long |-> <<>>, age_checks |-> 0, trace |-> <<>>]
    IN  IF d.raised # "none" THEN [nothing EXCEPT !.raised = d.raised]
        ELSE IF p.raised # "none"
        THEN [nothing EXCEPT !.raised = p.raised, !.trace = p.trace]
        ELSE IF p.is_none
        THEN [nothing EXCEPT !.trace = p.trace, !.too_long = p.too_long]
        ELSE [raised |-> "none",
              dt_payload |-> IF old.ret THEN payload ELSE <<p.parsed>> \o payload,
              too_old_records |-> old.too_old_records,
              parsing_errors |-> old.parsing_errors,
              too_long |-> p.too_long, age_checks |-> 1, trace |-> p.trace]

\* process_record at wall-clock time clock: the exception it raises ("none"
\* when it returns), the payload after the call, what the call adds to the
\* counters of self_monitoring, and the number of is_too_old calls it makes.
process_record(payload, record, rid, clock, limit) ==
    LET d == deserialize_properties(record)
        p == parse_record(d.record, rid)
        old == is_too_old(p.parsed.timestamp, clock, limit)
        nothing == [raised |-> "none", dt_payload |-> payload,
                    too_old_records |-> 0, parsing_errors |-> 0,
                    too_long |-> <<>>, age_checks |-> 0, trace |-> <<>>]
    IN  IF d.raised # "none" THEN [nothing EXCEPT !.raised = d.raised]
        ELSE IF p.raised # "none"
        THEN [nothing EXCEPT !.raised = p.raised, !.trace = p.trace]
        ELSE IF p.is_none
        THEN [nothing EXCEPT !.trace = p.trace, !.too_long = p.too_long]
        ELSE [raised |-> "none",
              dt_payload |-> IF old.ret THEN payload ELSE Append(payload, p.parsed),
              too_old_records |-> old.too_old_records,
              parsing_errors |-> old.parsing_errors,
              too_long |-> p.too_long, age_checks |-> 1, trace |-> p.trace]

\* process_record without the fault boundary of lines 67-75: what it raises
\* leaves the loop.
unguarded_process_record(payload, record, rid, clock, limit) ==
    process_record(payload, record, rid, clock, limit)

\* Lines 67-75 with handlers that log and go on without counting.
guarded_process_record_uncounted(payload, record, rid, clock, limit) ==
    LET r == process_record(payload, record, rid, clock, limit)
    IN  IF r.raised # "none" THEN [r EXCEPT !.raised = "none"] ELSE r

\* Lines 67-75: process_record inside the per-record fault boundary; both
\* handlers count one parsing error and let the loop go on.
guarded_process_record(payload, record, rid, clock, limit) ==
    LET r == process_record(payload, record, rid, clock, limit)
    IN  IF r.raised # "none"
        THEN [r EXCEPT !.raised = "none",
                       !.parsing_errors = r.parsing_errors + 1]
        ELSE r

\* ----------------------------------------------------------------- events

\* What an event body holds:
\*   invalid_utf8          bytes that are not UTF-8 (decode raises)
\*   invalid_json          text that is not JSON (json.loads raises)
\*   not_object            JSON that is not an object (.get raises)
\*   records_not_iterable  an object whose "records" cannot be iterated
\*   no_records_key        an object without "records" (the default [] applies)
\*   records               an object whose "records" is a list of n records
BodyKinds ==
    {"invalid_utf8", "invalid_json", "not_object", "records_not_iterable",
     "no_records_key", "records"}

\* The events a batch is drawn from, with at most room records each.
EventInputs(room) ==
    {[enqueued_time |-> q, body |-> b, n |-> 0] :
        q \in EnqueuedTimes, b \in BodyKinds \ {"records"}}
    \cup {[enqueued_time |-> q, body |-> "records", n |-> k] :
            q \in EnqueuedTimes, k \in 0..room}

\* The value of event after a step that iterates no event.
NoEvent == [enqueued_time |-> NoEnqueuedTime, body |-> "no_event", n |-> 0]

\* Lines 63-65 for one event: the exception raised ("none" when the records
\* are obtained), the number of records to iterate, and the calls made.
decode_event(e) ==
    CASE e.body = "invalid_utf8" ->
           [raised |-> "UnicodeDecodeError", n |-> 0, decode_calls |-> 0]
      [] e.body = "invalid_json" ->
           [raised |-> "JSONDecodeError", n |-> 0, decode_calls |-> 1]
      [] e.body = "not_object" ->
           [raised |-> "AttributeError", n |-> 0, decode_calls |-> 1]
      [] e.body = "records_not_iterable" ->
           [raised |-> "TypeError", n |-> 0, decode_calls |-> 1]
      [] e.body = "no_records_key" ->
           [raised |-> "none", n |-> 0, decode_calls |-> 1]
      [] OTHER ->
           [raised |-> "none", n |-> e.n, decode_calls |-> 1]

\* Lines 61-65 with the body read and decoded before the age check.
read_event_decoding_first(e, clock, limit) ==
    LET old == is_too_old(EventTimestamp(e.enqueued_time), clock, limit)
        d == decode_event(e)
    IN  [skipped |-> old.ret /\ d.raised = "none",
         raised |-> d.raised,
         n |-> IF old.ret THEN 0 ELSE d.n,
         too_old_records |-> IF d.raised = "none" THEN old.too_old_records ELSE 0,
         parsing_errors |-> IF d.raised = "none" THEN old.parsing_errors ELSE 0,
         body_reads |-> 1, decode_calls |-> d.decode_calls]

\* Lines 61-65 with a fault boundary around the decoding of the body, which
\* the source does not have: a body that cannot be decoded counts one parsing
\* error and the loop goes on with the next event.
read_event_isolating(e, clock, limit) ==
    LET old == is_too_old(EventTimestamp(e.enqueued_time), clock, limit)
        d == decode_event(e)
    IN  IF old.ret
        THEN [skipped |-> TRUE, raised |-> "none", n |-> 0,
              too_old_records |-> old.too_old_records,
              parsing_errors |-> old.parsing_errors,
              body_reads |-> 0, decode_calls |-> 0]
        ELSE [skipped |-> FALSE, raised |-> "none", n |-> d.n,
              too_old_records |-> old.too_old_records,
              parsing_errors |->
                  old.parsing_errors + (IF d.raised # "none" THEN 1 ELSE 0),
              body_reads |-> 1, decode_calls |-> d.decode_calls]

\* Lines 61-65 for one event at wall-clock time clock: the age check at
\* event granularity and, when the event is not too old, the reading and
\* decoding of its body.
read_event(e, clock, limit) ==
    LET old == is_too_old(EventTimestamp(e.enqueued_time), clock, limit)
        d == decode_event(e)
    IN  IF old.ret
        THEN [skipped |-> TRUE, raised |-> "none", n |-> 0,
              too_old_records |-> old.too_old_records,
              parsing_errors |-> old.parsing_errors,
              body_reads |-> 0, decode_calls |-> 0]
        ELSE [skipped |-> FALSE, raised |-> d.raised, n |-> d.n,
              too_old_records |-> old.too_old_records,
              parsing_errors |-> old.parsing_errors,
              body_reads |-> 1, decode_calls |-> d.decode_calls]

\* Line 85 comparing without regard to case.
self_monitoring_enabled_any_case(value) ==
    value \in {"True", "true", "TRUE"}

\* Line 85: the feature flag as the finally block reads it.
self_monitoring_enabled(value) ==
    (IF value = "unset" THEN "False" ELSE value) \in {"True", "true"}

\* ------------------------------------------------------------------ state

VARIABLES
    pc,                     \* where process_logs is
    env,                    \* which of the two required settings are set
    record_age_limit,       \* the configured record age limit
    now,                    \* the wall clock
    events_left,            \* events of the batch not yet iterated
    ev,                     \* number of the event being iterated
    records_left,           \* records of that event not yet iterated
    idx,                    \* number of the record just iterated
    event,                  \* the event the last step iterated, if it did
    record,                 \* the record the last step iterated, if it did
    dt_payload,             \* the outgoing batch
    parsing_errors,         \* self_monitoring.parsing_errors
    too_old_records,        \* self_monitoring.too_old_records
    too_long_content_size,  \* self_monitoring.too_long_content_size
    exc,                    \* the exception in flight ("none": none)
    flag,                   \* SELF_MONITORING_ENABLED as the finally block read it
    calls,                  \* calls made so far, by callee
    passed,                 \* numbers of the events is_too_old let through
    trace,                  \* the steps parse_record took in the last step
    tally,                  \* outcomes so far, counted from the inputs
    invocations,            \* the invocations in flight in one process
    log_call_count          \* logging.log_call_count, a module global

vars ==
    <<pc, env, record_age_limit, now, events_left, ev, records_left, idx, event,
      record, dt_payload, parsing_errors, too_old_records,
      too_long_content_size, exc, flag, calls, passed, trace, limits, tally,
      invocations, log_call_count>>

\* ------------------------------------------------- outcomes, by the input

\* The value deserialize_properties looks at: the one at the first alias the
\* record has, or at the empty key when it has none.
PropertiesValue(rec) ==
    LET has == {i \in 1..Len(azure_properties_names) :
                   rec.raw[azure_properties_names[i]] # "absent"}
    IN  IF has = {} THEN rec.raw[""]
        ELSE rec.raw[azure_properties_names[
                        CHOOSE i \in has : \A j \in has : i <= j]]

\* Whether process_record raises on rec: the properties string is not JSON,
\* or a collaborator raises before the record is filtered out.
Raises(rec) ==
    \/ PropertiesValue(rec) = "str_bad"
    \/ rec.collab = "raise_early"
    \/ rec.collab = "raise_resource_id"
         /\ (rec.raw["resourceId"] # "absent" \/ rec.raw["_ResourceId"] # "absent")
    \/ rec.collab = "raise_filter"
    \/ rec.collab = "raise_late" /\ ~rec.filter

\* Whether an event enqueued at q is too old at clock under limit.
EventTooOld(e, clock, limit) ==
    e.enqueued_time.set /\ clock - e.enqueued_time.t > limit - 60

\* Whether the instant of timestamp ts is more than limit - 60 seconds
\* before clock.
TimestampTooOld(ts, clock, limit) ==
    ts.kind = "aware" /\ clock - ts.t > limit - 60


\* The one outcome of a record iterated at clock.
Outcome(rec, clock, limit) ==
    IF Raises(rec) THEN "failed"
    ELSE IF rec.filter THEN "filtered"
    ELSE IF TimestampTooOld(rec.timestamp, clock, limit) THEN "stale"
    ELSE "appended"

\* Whether the body of e gives its records.
Decodes(e) == e.body \in {"no_records_key", "records"}

\* logging.log_call_count before any invocation: the dictionary the logging
\* module starts with (owner 0), nothing counted in it.  After line 57 the
\* owner is the invocation that made the dictionary.
NoLogCalls == [owner |-> 0, count |-> 0]

NoTally ==
    [stale_events |-> 0, records |-> 0, appended |-> 0, filtered |-> 0,
     stale |-> 0, failed |-> 0, unparseable |-> 0]

\* ---------------------------------------------------------- process_logs

Callees ==
    {"is_too_old", "get_body", "json_loads", "process_record", "send_logs",
     "log_self_monitoring_data", "push_time_series_to_azure",
     "logging_exception"}

\* Main (lines 47-49) has built a fresh SelfMonitoring and calls process_logs
\* with a batch of events_left events.
Init ==
    /\ pc = "start"
    /\ env \in [url : BOOLEAN, key : BOOLEAN]
    /\ record_age_limit \in AgeLimits
    /\ now = 0
    /\ events_left \in 0..MaxEvents
    /\ ev = 0
    /\ records_left = 0
    /\ idx = 0
    /\ event = NoEvent
    /\ record = NoRecord
    /\ dt_payload = <<>>
    /\ parsing_errors = 0
    /\ too_old_records = 0
    /\ too_long_content_size = <<>>
    /\ exc = "none"
    /\ flag = "unread"
    /\ calls = [c \in Callees |-> 0]
    /\ passed = {}
    /\ trace = <<>>
    /\ limits = [attribute |-> attribute_value_length_limit,
                 content |-> content_length_limit]
    /\ tally = NoTally
    /\ invocations = <<>>
    /\ log_call_count = NoLogCalls

\* Records iterated so far, over all events.
RecordsSeen == calls["process_record"]

\* Lines 54-58 failing only when both settings are missing.
check_configuration_both_missing ==
    /\ pc = "start"
    /\ IF ~env.url /\ ~env.key
       THEN /\ exc' = "ConfigurationError"
            /\ pc' = "except"
            /\ dt_payload' = dt_payload
            /\ log_call_count' = log_call_count
       ELSE /\ exc' = exc
            /\ pc' = "events"
            /\ log_call_count' = [owner |-> 1, count |-> 0]
            /\ dt_payload' = <<>>
    /\ event' = NoEvent
    /\ record' = NoRecord
    /\ trace' = <<>>
    /\ UNCHANGED <<env, record_age_limit, now, events_left, ev, records_left,
                   idx, parsing_errors, too_old_records,
                   too_long_content_size, flag, calls, passed>>
    /\ UNCHANGED <<limits, tally, invocations>>

\* Lines 54-58: the configuration check.
check_configuration ==
    /\ pc = "start"
    /\ IF ~env.url \/ ~env.key
       THEN /\ exc' = "ConfigurationError"
            /\ pc' = "except"
            /\ dt_payload' = dt_payload
            /\ log_call_count' = log_call_count
       ELSE /\ exc' = exc
            /\ pc' = "events"
            /\ log_call_count' = [owner |-> 1, count |-> 0]
            /\ dt_payload' = <<>>
    /\ event' = NoEvent
    /\ record' = NoRecord
    /\ trace' = <<>>
    /\ UNCHANGED <<env, record_age_limit, now, events_left, ev, records_left,
                   idx, parsing_errors, too_old_records,
                   too_long_content_size, flag, calls, passed>>
    /\ UNCHANGED <<limits, tally, invocations>>

\* Lines 60-65: the next event of the batch.
process_event ==
    /\ pc = "events"
    /\ events_left > 0
    /\ \E e \in EventInputs(MaxRecords - RecordsSeen), clock \in {c \in Clock : c >= now} :
         LET r == read_event(e, clock, record_age_limit)
         IN  /\ event' = e
             /\ now' = clock
             /\ ev' = ev + 1
             /\ events_left' = events_left - 1
             /\ idx' = 0
             /\ records_left' = r.n
             /\ too_old_records' = too_old_records + r.too_old_records
             /\ parsing_errors' = parsing_errors + r.parsing_errors
             /\ calls' = [calls EXCEPT !["is_too_old"] = @ + 1,
                                       !["get_body"] = @ + r.body_reads,
                                       !["json_loads"] = @ + r.decode_calls]
             /\ passed' = IF r.skipped THEN passed ELSE passed \cup {ev + 1}
             /\ tally' =
                  IF EventTooOld(e, clock, record_age_limit)
                  THEN [tally EXCEPT !.stale_events = @ + 1]
                  ELSE IF Decodes(e)
                  THEN [tally EXCEPT !.records = @ + e.n]
                  ELSE tally
             /\ exc' = r.raised
             /\ pc' = IF r.raised # "none" THEN "except"
                      ELSE IF r.n > 0 THEN "records" ELSE "events"
    /\ record' = NoRecord
    /\ trace' = <<>>
    /\ UNCHANGED <<env, record_age_limit, dt_payload, too_long_content_size,
                   flag>>
    /\ UNCHANGED <<limits, invocations, log_call_count>>

\* Lines 66-75: the next record of the event.
process_next_record ==
    /\ pc = "records"
    /\ records_left > 0
    /\ \E rec \in RecordInputs, clock \in {c \in Clock : c >= now} :
         LET r == guarded_process_record(dt_payload, rec, <<ev, idx + 1>>, clock,
                                         record_age_limit)
             o == Outcome(rec, clock, record_age_limit)
         IN  /\ record' = rec
             /\ trace' = r.trace
             /\ tally' =
                  [tally EXCEPT
                     ![o] = @ + 1,
                     !.unparseable =
                         @ + (IF o = "appended"
                                   /\ rec.timestamp.kind \in {"unparseable", "naive"}
                              THEN 1 ELSE 0)]
             /\ now' = clock
             /\ idx' = idx + 1
             /\ records_left' = records_left - 1
             /\ dt_payload' = r.dt_payload
             /\ too_old_records' = too_old_records + r.too_old_records
             /\ parsing_errors' = parsing_errors + r.parsing_errors
             /\ too_long_content_size' = too_long_content_size \o r.too_long
             /\ calls' = [calls EXCEPT !["process_record"] = @ + 1,
                                       !["is_too_old"] = @ + r.age_checks]
             /\ exc' = r.raised
             /\ pc' = IF r.raised # "none" THEN "except"
                      ELSE IF records_left > 1 THEN "records" ELSE "events"
    /\ event' = NoEvent
    /\ UNCHANGED <<env, record_age_limit, events_left, ev, flag, passed>>
    /\ UNCHANGED <<limits, invocations, log_call_count>>

\* Lines 77-80 moved into the loop: the payload is sent as soon as an event
\* is done, whether or not others are left.
finish_events_before_the_end ==
    /\ pc = "events"
    /\ pc' = IF dt_payload # <<>> THEN "send" ELSE "finally"
    /\ event' = NoEvent
    /\ record' = NoRecord
    /\ trace' = <<>>
    /\ UNCHANGED <<env, record_age_limit, now, events_left, ev, records_left,
                   idx, dt_payload, parsing_errors, too_old_records,
                   too_long_content_size, exc, flag, calls, passed>>
    /\ UNCHANGED <<limits, tally, invocations, log_call_count>>

\* Lines 77-80 without the test of line 79.
finish_events_always_sending ==
    /\ pc = "events"
    /\ events_left = 0
    /\ pc' = "send"
    /\ event' = NoEvent
    /\ record' = NoRecord
    /\ trace' = <<>>
    /\ UNCHANGED <<env, record_age_limit, now, events_left, ev, records_left,
                   idx, dt_payload, parsing_errors, too_old_records,
                   too_long_content_size, exc, flag, calls, passed>>
    /\ UNCHANGED <<limits, tally, invocations, log_call_count>>

\* Lines 77-79: the loop over the events is over.
finish_events ==
    /\ pc = "events"
    /\ events_left = 0
    /\ pc' = IF dt_payload # <<>> THEN "send" ELSE "finally"
    /\ event' = NoEvent
    /\ record' = NoRecord
    /\ trace' = <<>>
    /\ UNCHANGED <<env, record_age_limit, now, events_left, ev, records_left,
                   idx, dt_payload, parsing_errors, too_old_records,
                   too_long_content_size, exc, flag, calls, passed>>
    /\ UNCHANGED <<limits, tally, invocations, log_call_count>>

\* Line 80: send_logs returns or raises.
send ==
    /\ pc = "send"
    /\ calls' = [calls EXCEPT !["send_logs"] = @ + 1]
    /\ \E failed \in BOOLEAN :
         /\ exc' = IF failed THEN "SendError" ELSE "none"
         /\ pc' = IF failed THEN "except" ELSE "finally"
    /\ event' = NoEvent
    /\ record' = NoRecord
    /\ trace' = <<>>
    /\ UNCHANGED <<env, record_age_limit, now, events_left, ev, records_left,
                   idx, dt_payload, parsing_errors, too_old_records,
                   too_long_content_size, flag, passed>>
    /\ UNCHANGED <<limits, tally, invocations, log_call_count>>

\* Lines 81-83 without the raise of line 83.
handle_exception_swallowing ==
    /\ pc = "except"
    /\ calls' = [calls EXCEPT !["logging_exception"] = @ + 1]
    /\ exc' = "none"
    /\ pc' = "finally"
    /\ event' = NoEvent
    /\ record' = NoRecord
    /\ trace' = <<>>
    /\ UNCHANGED <<env, record_age_limit, now, events_left, ev, records_left,
                   idx, dt_payload, parsing_errors, too_old_records,
                   too_long_content_size, flag, passed>>
    /\ UNCHANGED <<limits, tally, invocations, log_call_count>>

\* Lines 81-83: the handler logs the failure and raises the exception again.
handle_exception ==
    /\ pc = "except"
    /\ calls' = [calls EXCEPT !["logging_exception"] = @ + 1]
    /\ exc' = exc
    /\ pc' = "finally"
    /\ event' = NoEvent
    /\ record' = NoRecord
    /\ trace' = <<>>
    /\ UNCHANGED <<env, record_age_limit, now, events_left, ev, records_left,
                   idx, dt_payload, parsing_errors, too_old_records,
                   too_long_content_size, flag, passed>>
    /\ UNCHANGED <<limits, tally, invocations, log_call_count>>

\* Lines 84-88: the finally block, and the way process_logs is left.
finalize ==
    /\ pc = "finally"
    /\ \E value \in FlagValues :
         /\ flag' = value
         /\ calls' = [calls EXCEPT
                        !["log_self_monitoring_data"] = @ + 1,
                        !["push_time_series_to_azure"] =
                            @ + (IF self_monitoring_enabled(value) THEN 1 ELSE 0)]
    /\ pc' = IF exc # "none" THEN "raised" ELSE "returned"
    /\ event' = NoEvent
    /\ record' = NoRecord
    /\ trace' = <<>>
    /\ UNCHANGED <<env, record_age_limit, now, events_left, ev, records_left,
                   idx, dt_payload, parsing_errors, too_old_records,
                   too_long_content_size, exc, passed>>
    /\ UNCHANGED <<limits, tally, invocations, log_call_count>>

Next ==
    \/ check_configuration
    \/ process_event
    \/ process_next_record
    \/ finish_events
    \/ send
    \/ handle_exception
    \/ finalize

Spec == Init /\ [][Next]_vars

\* ------------------------------------------- is_too_old, called on its own

\* Age limits, clock readings and timestamps around the threshold
\* record_age_limit - 60, for single calls of is_too_old and process_record.
WideAgeLimits == {0, 59, 60, 61, 62, 63}

WideClock == 0..2

WideTimestamps ==
    {NoneTs, [kind |-> "empty", t |-> 0], [kind |-> "unparseable", t |-> 0],
     [kind |-> "naive", t |-> 0]} \cup {Aware(t) : t \in -3..3}

\* A caller holds a record (is_too_old is called on its timestamp), a
\* SelfMonitoring with some counts already in it and, for process_record, a
\* payload that is empty or holds one earlier record.
InitAge ==
    /\ pc = "age_call"
    /\ env = [url |-> TRUE, key |-> TRUE]
    /\ record_age_limit \in WideAgeLimits
    /\ now \in WideClock
    /\ events_left = 0
    /\ ev = 1
    /\ records_left = 1
    /\ idx = 0
    /\ event = NoEvent
    /\ record \in {Rec("absent", "ok", FALSE, ts, Text(0)) : ts \in WideTimestamps}
    /\ dt_payload \in {<<>>, <<[NoParsed EXCEPT !.rid = <<1, 0>>]>>}
    /\ parsing_errors \in 0..1
    /\ too_old_records \in 0..1
    /\ too_long_content_size = <<>>
    /\ exc = "none"
    /\ flag = "unread"
    /\ calls = [c \in Callees |-> 0]
    /\ passed = {1}
    /\ trace = <<>>
    /\ limits = [attribute |-> attribute_value_length_limit,
                 content |-> content_length_limit]
    /\ tally = NoTally
    /\ invocations = <<>>
    /\ log_call_count = NoLogCalls

\* One call is_too_old(record's timestamp, self_monitoring, log_part); pc
\* keeps the value returned.
call_is_too_old ==
    /\ pc = "age_call"
    /\ LET r == is_too_old(record.timestamp, now, record_age_limit)
       IN  /\ pc' = IF r.ret THEN "age_true" ELSE "age_false"
           /\ too_old_records' = too_old_records + r.too_old_records
           /\ parsing_errors' = parsing_errors + r.parsing_errors
    /\ calls' = [calls EXCEPT !["is_too_old"] = @ + 1]
    /\ UNCHANGED <<env, record_age_limit, now, events_left, ev, records_left,
                   idx, event, record, dt_payload, too_long_content_size, exc,
                   flag, passed>>
    /\ UNCHANGED <<trace, limits, tally, invocations, log_call_count>>

\* One call process_record(dt_payload, record, self_monitoring).
call_process_record ==
    /\ pc = "age_call"
    /\ LET r == process_record(dt_payload, record, <<ev, idx + 1>>, now,
                               record_age_limit)
       IN  /\ pc' = "record_done"
           /\ trace' = r.trace
           /\ exc' = r.raised
           /\ dt_payload' = r.dt_payload
           /\ too_old_records' = too_old_records + r.too_old_records
           /\ parsing_errors' = parsing_errors + r.parsing_errors
           /\ too_long_content_size' = too_long_content_size \o r.too_long
           /\ calls' = [calls EXCEPT !["process_record"] = @ + 1,
                                     !["is_too_old"] = @ + r.age_checks]
    /\ idx' = idx + 1
    /\ records_left' = records_left - 1
    /\ UNCHANGED <<env, record_age_limit, now, events_left, ev, event, record,
                   flag, passed>>
    /\ UNCHANGED <<limits, tally, invocations, log_call_count>>

NextAge ==
    \/ call_is_too_old
    \/ call_process_record

SpecAge == InitAge /\ [][NextAge]_vars

\* ------------------------------- process_record and its parts, on their own

\* Values of the two limits, some of them below the length of the marker, of
\* "Azure" and of the values to cut.
ContentLimits == {4, 11, 12}

AttributeLimits == {0, 3, 5}

PropertyValues == {"absent", "dict", "str_empty", "str_json", "str_bad"}

Collabs ==
    {"ok", "raise_early", "raise_resource_id", "raise_filter", "raise_late"}

AttributeValues ==
    {NoAttr, Attr("str", Text(0)), Attr("str", Text(6)),
     Attr("int", <<"0">>), Attr("int", <<"1", "2", "3", "4", "5", "6">>)}

\* Records with every combination of values at the aliases and the empty key.
AliasRecords ==
    {[Rec("absent", "ok", FALSE, NoneTs, Text(0)) EXCEPT
        !.raw["properties"] = p, !.raw["Properties"] = q, !.raw[""] = e] :
        p \in PropertyValues, q \in PropertyValues, e \in PropertyValues}

\* Records with and without each resource id field, for every collaborator
\* that may raise and both answers of the filter.
ResourceIdRecords ==
    {[Rec("dict", c, f, NoneTs, Text(0)) EXCEPT
        !.raw["resourceId"] = a, !.raw["_ResourceId"] = b] :
        a \in {"absent", "id_a"}, b \in {"absent", "id_b"},
        c \in Collabs, f \in BOOLEAN}

\* Records with a content of every length up to MaxContent, a fresh or a
\* stale timestamp, kept or filtered out.
ContentRecords ==
    {[Rec("absent", "ok", f, ts, Text(n)) EXCEPT !.attribute = v] :
        f \in BOOLEAN, ts \in {Aware(0), Aware(-3)}, n \in 0..MaxContent,
        v \in AttributeValues}

\* A caller holds a raw record, the two limits are configured, and the payload
\* is empty or holds one earlier record, cut to the limits.
InitRecord ==
    /\ pc = "age_call"
    /\ env = [url |-> TRUE, key |-> TRUE]
    /\ record_age_limit \in AgeLimits
    /\ now = 0
    /\ events_left = 0
    /\ ev = 1
    /\ records_left = 1
    /\ idx = 0
    /\ event = NoEvent
    /\ record \in AliasRecords \cup ResourceIdRecords \cup ContentRecords
    /\ limits \in [attribute : AttributeLimits, content : ContentLimits]
    /\ dt_payload
         \in {<<>>,
              <<AttributeSanitizer([NoParsed EXCEPT !.rid = <<1, 0>>]).parsed>>}
    /\ parsing_errors = 0
    /\ too_old_records = 0
    /\ too_long_content_size = <<>>
    /\ exc = "none"
    /\ flag = "unread"
    /\ calls = [c \in Callees |-> 0]
    /\ passed = {1}
    /\ trace = <<>>
    /\ tally = NoTally
    /\ invocations = <<>>
    /\ log_call_count = NoLogCalls

\* One call deserialize_properties(record): record is the dictionary after
\* the call, exc what the call raised.
call_deserialize_properties ==
    /\ pc = "age_call"
    /\ LET d == deserialize_properties(record)
       IN  /\ record' = d.record
           /\ exc' = d.raised
    /\ pc' = "deserialized"
    /\ UNCHANGED <<env, record_age_limit, now, events_left, ev, records_left,
                   idx, event, dt_payload, parsing_errors, too_old_records,
                   too_long_content_size, flag, calls, passed, trace, limits,
                   tally, invocations, log_call_count>>

\* Lines 146-161 run once more on the parsed record process_record has just
\* appended.
sanitize_again ==
    /\ pc = "record_done"
    /\ Len(dt_payload) > 0
    /\ dt_payload[Len(dt_payload)].rid = <<ev, idx>>
    /\ LET s == AttributeSanitizer(dt_payload[Len(dt_payload)])
       IN  /\ dt_payload' = [dt_payload EXCEPT ![Len(dt_payload)] = s.parsed]
           /\ too_long_content_size' = too_long_content_size \o s.too_long
    /\ pc' = "sanitized_again"
    /\ UNCHANGED <<env, record_age_limit, now, events_left, ev, records_left,
                   idx, event, record, parsing_errors, too_old_records, exc,
                   flag, calls, passed, trace, limits, tally, invocations,
                   log_call_count>>

NextRecord ==
    \/ call_deserialize_properties
    \/ call_process_record
    \/ sanitize_again

SpecRecord == InitRecord /\ [][NextRecord]_vars

\* ----------------------------------------- two invocations in one process

Invocations == {1, 2}

\* The variables of the single invocation followed above.
batch_vars ==
    <<pc, env, record_age_limit, now, events_left, ev, records_left, idx, event,
      record, dt_payload, parsing_errors, too_old_records,
      too_long_content_size, exc, flag, calls, passed, trace, limits, tally>>

\* An invocation that has not begun.
Idle == [pc |-> "idle", records_left |-> 0, parsing_errors |-> 0]

\* The effect on logging.log_call_count of one logging.exception call with a
\* caller id: the call is counted in whatever dictionary the module holds.
count_log_call(log_calls) == [log_calls EXCEPT !.count = @ + 1]

\* The host has two invocations to make; neither has begun.
InitConc ==
    /\ pc = "start"
    /\ env = [url |-> TRUE, key |-> TRUE]
    /\ record_age_limit \in AgeLimits
    /\ now = 0
    /\ events_left = 0
    /\ ev = 0
    /\ records_left = 0
    /\ idx = 0
    /\ event = NoEvent
    /\ record = NoRecord
    /\ dt_payload = <<>>
    /\ parsing_errors = 0
    /\ too_old_records = 0
    /\ too_long_content_size = <<>>
    /\ exc = "none"
    /\ flag = "unread"
    /\ calls = [c \in Callees |-> 0]
    /\ passed = {}
    /\ trace = <<>>
    /\ limits = [attribute |-> attribute_value_length_limit,
                 content |-> content_length_limit]
    /\ tally = NoTally
    /\ invocations = [i \in Invocations |-> Idle]
    /\ log_call_count = NoLogCalls

\* Lines 47-58 for invocation i: main builds a SelfMonitoring of its own,
\* and process_logs binds logging.log_call_count to a new dictionary before
\* it iterates the n records of its batch.
main(i) ==
    /\ invocations[i].pc = "idle"
    /\ \E n \in 0..MaxRecords :
         invocations' = [invocations EXCEPT
                           ![i] = [pc |-> "events", records_left |-> n,
                                   parsing_errors |-> 0]]
    /\ log_call_count' = [owner |-> i, count |-> 0]
    /\ UNCHANGED batch_vars

\* Lines 66-75 for invocation i, on a record that raises: the handler logs
\* through logging.exception and counts a parsing error in the
\* SelfMonitoring of i.
record_raises(i) ==
    /\ invocations[i].pc = "events"
    /\ invocations[i].records_left > 0
    /\ invocations' = [invocations EXCEPT
                         ![i].records_left = @ - 1,
                         ![i].parsing_errors = @ + 1]
    /\ log_call_count' = count_log_call(log_call_count)
    /\ UNCHANGED batch_vars

\* Lines 66-68 for invocation i, on a record that does not raise.
record_returns(i) ==
    /\ invocations[i].pc = "events"
    /\ invocations[i].records_left > 0
    /\ invocations' = [invocations EXCEPT ![i].records_left = @ - 1]
    /\ UNCHANGED log_call_count
    /\ UNCHANGED batch_vars

\* Lines 77-88 for invocation i: the invocation ends.
end_invocation(i) ==
    /\ invocations[i].pc = "events"
    /\ invocations[i].records_left = 0
    /\ invocations' = [invocations EXCEPT ![i].pc = "ended"]
    /\ UNCHANGED log_call_count
    /\ UNCHANGED batch_vars

NextConc ==
    \/ \E i \in Invocations : main(i)
    \/ \E i \in Invocations : record_raises(i)
    \/ \E i \in Invocations : record_returns(i)
    \/ \E i \in Invocations : end_invocation(i)

SpecConc == InitConc /\ [][NextConc]_vars

\* ================================================================ claims

\* Bodies from which the records cannot be obtained.
BadBodies ==
    {"invalid_utf8", "invalid_json", "not_object", "records_not_iterable"}

\* A step of the loop over the records that iterates rec.
RecordStep == pc = "records" /\ record' # NoRecord

\* A step of the loop over the events that iterates an event.
EventStep == pc = "events" /\ event' # NoEvent

\* C1: per-record fault isolation.  Whenever the loop iterates a record on
\* which process_record raises (a JSON decode failure of its properties
\* string or an exception of a collaborator inside parse_record), the step
\* adds exactly 1 to parsing_errors, appends nothing, leaves everything else
\* that the processing of the other records reads or writes (the payload,
\* too_old_records, too_long_content_size) as it was, raises nothing out of
\* the loop and goes on with the next record of the event (or the next
\* event).
C1_RecordFaultIsolation ==
    [][(RecordStep /\ Raises(record'))
         => /\ parsing_errors' = parsing_errors + 1
            /\ dt_payload' = dt_payload
            /\ too_old_records' = too_old_records
            /\ too_long_content_size' = too_long_content_size
            /\ exc' = "none"
            /\ records_left' = records_left - 1
            /\ pc' = IF records_left > 1 THEN "records" ELSE "events"]_vars

\* C1, the case: record 2 of 3 has just raised, record 1 is in the payload
\* and record 3 is still to come.
C1_Witness ==
    /\ pc = "records"
    /\ Raises(record) /\ record # NoRecord
    /\ idx = 2 /\ records_left = 1
    /\ Len(dt_payload) = 1 /\ dt_payload[1].rid = <<1, 1>>
    /\ parsing_errors = 1

\* C2 as stated: when the body of an event that passed the age check cannot
\* be decoded, the step counts one parsing error, raises nothing and the
\* loop goes on with the remaining events.
C2_EventDecodeIsolated ==
    [][(EventStep /\ event'.body \in BadBodies
          /\ ~EventTooOld(event', now', record_age_limit))
         => /\ parsing_errors' = parsing_errors + 1
            /\ exc' = "none"
            /\ pc' = "events"]_vars

\* C2 as amended: when the body of an event that passed the age check cannot
\* be decoded, the failure escapes the event: the step counts no parsing
\* error, keeps the payload and leaves the loop with the exception in
\* flight; from then on no further event is iterated, send_logs is not
\* invoked and the exception stays in flight until the invocation ends.
C2_EventDecodeEscapes ==
    [][/\ (EventStep /\ event'.body \in BadBodies
             /\ ~EventTooOld(event', now', record_age_limit))
            => /\ parsing_errors' = parsing_errors
               /\ dt_payload' = dt_payload
               /\ exc' # "none"
               /\ pc' = "except"
       /\ exc # "none"
            => /\ exc' = exc
               /\ events_left' = events_left
               /\ calls'["send_logs"] = calls["send_logs"]
               /\ calls'["process_record"] = calls["process_record"]
               /\ pc' \in {"finally", "raised"}]_vars

\* C2, the case: the body of the first of two events was not JSON; the
\* invocation has ended by raising, the second event was never iterated.
C2_Witness ==
    /\ pc = "raised"
    /\ exc = "JSONDecodeError"
    /\ ev = 1 /\ events_left = 1
    /\ parsing_errors = 0
    /\ calls["send_logs"] = 0
    /\ calls["json_loads"] = 1

\* C3: finalization.  However the invocation ends (returned or raised, after
\* a send or without one, after a missing setting, a failure in the loop or
\* a failure of send_logs), log_self_monitoring_data has been called exactly
\* once, and push_time_series_to_azure exactly once if
\* SELF_MONITORING_ENABLED is "True" or "true" and not at all otherwise;
\* neither is called before the finally block.
C3_Finalization ==
    /\ pc \in {"returned", "raised"}
         => /\ calls["log_self_monitoring_data"] = 1
            /\ calls["push_time_series_to_azure"] =
                   (IF flag \in {"True", "true"} THEN 1 ELSE 0)
    /\ pc \in {"start", "events", "records", "send", "except", "finally"}
         => /\ calls["log_self_monitoring_data"] = 0
            /\ calls["push_time_series_to_azure"] = 0

\* C3, the case: send_logs raised, the flag reads "TRUE": the data was
\* logged once and not pushed.
C3_Witness ==
    /\ pc = "raised"
    /\ exc = "SendError"
    /\ flag = "TRUE"
    /\ calls["log_self_monitoring_data"] = 1
    /\ calls["push_time_series_to_azure"] = 0
\* C4: top-level failure propagation.  An exception that leaves the loop or
\* the send (a missing setting, a failure at the level of an event, a
\* failure of send_logs) is never swallowed: once in flight it stays the same
\* exception until the invocation ends, the invocation then ends by raising
\* it, and log_self_monitoring_data has run by then; an invocation returns
\* normally only when both settings were present and the handler of lines
\* 81-83 never ran.
C4_FailurePropagation ==
    /\ [](pc = "raised"
            => exc # "none" /\ calls["log_self_monitoring_data"] = 1)
    /\ [](pc = "returned"
            => /\ exc = "none"
               /\ env.url /\ env.key
               /\ calls["logging_exception"] = 0)
    /\ [](~(env.url /\ env.key) /\ pc # "start" => exc = "ConfigurationError")
    /\ [][/\ exc # "none" => exc' = exc /\ pc' \in {"finally", "raised"}
          /\ (EventStep /\ event'.body \in BadBodies
                /\ ~EventTooOld(event', now', record_age_limit))
               => exc' # "none"]_vars

\* C4, the case: after a record of the first event was appended, the second
\* event's records could not be iterated; the invocation has raised that
\* exception, after the flush.
C4_Witness ==
    /\ pc = "raised"
    /\ exc = "TypeError"
    /\ ev = 2
    /\ Len(dt_payload) = 1
    /\ calls["log_self_monitoring_data"] = 1
    /\ calls["logging_exception"] = 1

\* C5: send gating.  send_logs is invoked at most once and never with an
\* empty payload; once the loop over the events has completed (nothing in
\* flight but, possibly, the failure of send_logs itself) and the send is
\* behind, send_logs was invoked if and only if the payload is non-empty.
C5_SendGating ==
    /\ calls["send_logs"] \in {0, 1}
    /\ calls["send_logs"] = 1 => dt_payload # <<>>
    /\ pc = "send" => dt_payload # <<>>
    /\ (pc \in {"finally", "returned", "raised"} /\ exc \in {"none", "SendError"})
         => (calls["send_logs"] = 1 <=> dt_payload # <<>>)

\* C5, the case: three records were iterated and none was appended (failed,
\* filtered or stale); the invocation returned without invoking send_logs.
C5_Witness ==
    /\ pc = "returned"
    /\ calls["process_record"] = 3
    /\ parsing_errors >= 1 /\ too_old_records >= 1
    /\ dt_payload = <<>>
    /\ calls["send_logs"] = 0

\* C6: configuration precondition.  When DYNATRACE_URL or
\* DYNATRACE_ACCESS_KEY is missing, the invocation fails with the
\* configuration error and touches no event: is_too_old, get_body,
\* json.loads, process_record and send_logs are never called, no event is
\* iterated, and the three counters stay as main created them.
C6_ConfigurationPrecondition ==
    (~env.url \/ ~env.key)
      => /\ pc \in {"start", "except", "finally", "raised"}
         /\ pc # "start" => exc = "ConfigurationError"
         /\ calls["is_too_old"] = 0
         /\ calls["get_body"] = 0
         /\ calls["json_loads"] = 0
         /\ calls["process_record"] = 0
         /\ calls["send_logs"] = 0
         /\ ev = 0
         /\ too_old_records = 0
         /\ parsing_errors = 0
         /\ too_long_content_size = <<>>
         /\ dt_payload = <<>>

\* C6, the case: only the access key is missing, the batch holds two events;
\* the invocation has raised.
C6_Witness ==
    /\ pc = "raised"
    /\ env.url /\ ~env.key
    /\ events_left = 2
    /\ exc = "ConfigurationError"

\* C7: stale-event short circuit.  Whenever the loop iterates an event whose
\* enqueue timestamp is more than record_age_limit - 60 seconds old, the step
\* neither reads nor decodes the body, iterates none of the event's
\* records, appends nothing, adds exactly 1 to too_old_records (whatever the
\* number of records in the body) and nothing to parsing_errors, and the loop
\* goes on with the next event.
C7_StaleEventShortCircuit ==
    [][(EventStep /\ EventTooOld(event', now', record_age_limit))
         => /\ calls'["get_body"] = calls["get_body"]
            /\ calls'["json_loads"] = calls["json_loads"]
            /\ calls'["process_record"] = calls["process_record"]
            /\ records_left' = 0
            /\ dt_payload' = dt_payload
            /\ too_old_records' = too_old_records + 1
            /\ parsing_errors' = parsing_errors
            /\ exc' = "none"
            /\ events_left' = events_left - 1
            /\ pc' = "events"]_vars

\* C7, the case: the first of two events is stale and its body holds two
\* records; it was counted once, its body was not read, the second event is
\* still to come.
C7_Witness ==
    /\ pc = "events"
    /\ event # NoEvent
    /\ EventTooOld(event, now, record_age_limit)
    /\ event.body = "records" /\ event.n = 2
    /\ too_old_records = 1
    /\ calls["get_body"] = 0 /\ calls["json_loads"] = 0
    /\ events_left = 1
\* Whether parse_record returns a parsed record for rec.
Parses(rec) == ~Raises(rec) /\ ~rec.filter

\* A single call of is_too_old on the timestamp of record.
AgeCall == pc = "age_call" /\ pc' \in {"age_true", "age_false"}

\* A single call of process_record on record.
RecordCall == pc = "age_call" /\ pc' = "record_done"

\* C8: the threshold of is_too_old.  A call on a timestamp T with
\* now - T > record_age_limit - 60 returns True and adds exactly 1 to
\* too_old_records; a call on a timestamp with now - T <= record_age_limit - 60
\* (equality included), or on None, returns False and changes neither
\* too_old_records nor parsing_errors.
C8_AgeThreshold ==
    [][AgeCall
         => /\ TimestampTooOld(record.timestamp, now, record_age_limit)
                 => /\ pc' = "age_true"
                    /\ too_old_records' = too_old_records + 1
            /\ (\/ record.timestamp.kind = "none"
                \/ /\ record.timestamp.kind = "aware"
                   /\ now - record.timestamp.t <= record_age_limit - 60)
                 => /\ pc' = "age_false"
                    /\ too_old_records' = too_old_records
                    /\ parsing_errors' = parsing_errors]_vars

\* C8, the case: a call on a timestamp exactly record_age_limit - 60 seconds
\* old has returned False.
C8_Witness ==
    /\ pc = "age_false"
    /\ record.timestamp.kind = "aware"
    /\ now - record.timestamp.t = record_age_limit - 60
    /\ calls["is_too_old"] = 1

\* C9: is_too_old fails open.  On a timestamp that lines 104-106 cannot
\* handle (parser.parse raises, or the parsed value carries no UTC offset and
\* the subtraction raises), a call of is_too_old returns False, adds exactly
\* 1 to parsing_errors and leaves too_old_records alone; and a call of
\* process_record on a record parsed with such a timestamp appends the
\* parsed record, with the same changes to the counters.
C9_AgeGuardFailsOpen ==
    [][(pc = "age_call" /\ record.timestamp.kind \in {"unparseable", "naive"})
         => /\ AgeCall
                 => /\ pc' = "age_false"
                    /\ parsing_errors' = parsing_errors + 1
                    /\ too_old_records' = too_old_records
            /\ RecordCall
                 => /\ exc' = "none"
                    /\ Len(dt_payload') = Len(dt_payload) + 1
                    /\ dt_payload'[Len(dt_payload')].timestamp = record.timestamp
                    /\ SubSeq(dt_payload', 1, Len(dt_payload)) = dt_payload
                    /\ parsing_errors' = parsing_errors + 1
                    /\ too_old_records' = too_old_records]_vars

\* C9, the case: process_record has appended, after an earlier record, a
\* record whose timestamp string cannot be parsed, and counted one parsing
\* error.
C9_Witness ==
    /\ pc = "record_done"
    /\ record.timestamp.kind = "unparseable"
    /\ Len(dt_payload) = 2
    /\ dt_payload[2].timestamp.kind = "unparseable"
    /\ parsing_errors = 1 /\ too_old_records = 0

\* C10: no stale data is forwarded.  Every record of the payload belongs to
\* an event that is_too_old let through, and no event that was too old when
\* checked counts as let through; a record is appended only by a step that
\* found its timestamp not too old at the clock reading of that step; and a
\* step on a record that parses with a timestamp more than
\* record_age_limit - 60 seconds old appends nothing, adds exactly 1 to
\* too_old_records and nothing to parsing_errors.
C10_NoStaleDataForwarded ==
    /\ [](\A i \in 1..Len(dt_payload) : dt_payload[i].rid[1] \in passed)
    /\ [][/\ (EventStep /\ EventTooOld(event', now', record_age_limit))
               => passed' = passed
          /\ \A i \in 1..Len(dt_payload') :
                 i > Len(dt_payload)
                   => /\ RecordStep
                      /\ dt_payload'[i].timestamp = record'.timestamp
                      /\ ~TimestampTooOld(dt_payload'[i].timestamp, now',
                                          record_age_limit)
          /\ (RecordStep /\ Parses(record')
                /\ TimestampTooOld(record'.timestamp, now', record_age_limit))
               => /\ dt_payload' = dt_payload
                  /\ too_old_records' = too_old_records + 1
                  /\ parsing_errors' = parsing_errors]_vars

\* C10, the case: the second record of an event parsed with a stale
\* timestamp; it was counted as too old and not appended, the first record
\* is in the payload.
C10_Witness ==
    /\ pc \in {"records", "events"}
    /\ record # NoRecord /\ Parses(record)
    /\ TimestampTooOld(record.timestamp, now, record_age_limit)
    /\ idx = 2
    /\ Len(dt_payload) = 1
    /\ too_old_records = 1 /\ parsing_errors = 0

\* The steps of the trace whose collaborator is one of fns.
StepsOf(steps, fns) == {i \in 1..Len(steps) : steps[i].fn \in fns}

\* C11: the drop filter.  When process_record is called on a record for
\* which should_filter_out_record answers true, the record is dropped at
\* once: the filter is the last step parse_record takes, so neither the
\* mapping engine nor the entity inference nor the attribute and content
\* sanitization runs; the payload is as it was, nothing is appended to
\* too_long_content_size, parsing_errors and too_old_records keep their
\* values and nothing is raised.
C11_DropFilter ==
    [][(RecordCall /\ record.filter /\ ~Raises(record))
         => /\ dt_payload' = dt_payload
            /\ \A i \in 1..Len(dt_payload') : dt_payload'[i].rid # <<ev, idx + 1>>
            /\ Len(trace') > 0
            /\ trace'[Len(trace')].fn = "should_filter_out_record"
            /\ StepsOf(trace', {"metadata_engine.apply",
                                "infer_monitored_entity_id", "sanitize"}) = {}
            /\ too_long_content_size' = too_long_content_size
            /\ parsing_errors' = parsing_errors
            /\ too_old_records' = too_old_records
            /\ exc' = "none"]_vars

\* C11, the case: process_record has returned from a filtered record whose
\* content is longer than the limit, whose timestamp is stale and which has
\* an attribute to cut; an earlier record is still alone in the payload.
C11_Witness ==
    /\ pc = "record_done"
    /\ record.filter /\ ~Raises(record)
    /\ Len(record.content) > limits.content
    /\ TimestampTooOld(record.timestamp, now, record_age_limit)
    /\ Truthy(record.attribute)
    /\ Len(dt_payload) = 1 /\ dt_payload[1].rid = <<1, 0>>
    /\ too_long_content_size = <<>>
    /\ too_old_records = 0
    /\ trace # <<>>

\* The first n characters of s (none when n is not positive).
FirstChars(s, n) == [i \in 1..(IF n < Len(s) THEN n ELSE Len(s)) |-> s[i]]

\* The parsed record a call of process_record has just appended.
Appended == Len(dt_payload') = Len(dt_payload) + 1

LastAppended == dt_payload'[Len(dt_payload')]

\* C12: content truncation.  When process_record parses a record whose
\* content has length L, then under every configured content_length_limit:
\* if L <= content_length_limit the content is the original one and
\* too_long_content_size is as it was; if L > content_length_limit the
\* content is the first content_length_limit - len("[TRUNCATED]") characters
\* of the original followed by "[TRUNCATED]", and L is appended exactly once
\* to too_long_content_size.
C12_ContentTruncation ==
    [][(RecordCall /\ Parses(record))
         => LET L == Len(record.content)
                kept == limits.content
                          - Len(DYNATRACE_LOG_INGEST_CONTENT_MARK_TRIMMED)
            IN  IF L <= limits.content
                THEN /\ too_long_content_size' = too_long_content_size
                     /\ Appended => LastAppended.content = record.content
                ELSE /\ too_long_content_size'
                          = Append(too_long_content_size, L)
                     /\ Appended
                          => LastAppended.content
                               = FirstChars(record.content, kept)
                                   \o DYNATRACE_LOG_INGEST_CONTENT_MARK_TRIMMED]_vars

\* C12, the case that fails: under a limit of 4 a content of 14 characters
\* has become its first 7 characters followed by the marker.
C12_Witness ==
    /\ pc = "record_done"
    /\ Parses(record)
    /\ limits.content = 4
    /\ Len(record.content) = 14
    /\ Len(dt_payload) = 2
    /\ dt_payload[2].content
         = FirstChars(record.content, 7)
             \o DYNATRACE_LOG_INGEST_CONTENT_MARK_TRIMMED
    /\ too_long_content_size = <<14>>

\* C13: the size limits of emitted records.  Under every configured
\* attribute_value_length_limit and content_length_limit, every parsed
\* record in the payload has each string value outside content, severity and
\* timestamp no longer than attribute_value_length_limit, and a content no
\* longer than content_length_limit.
C13_SizeLimits ==
    \A i \in 1..Len(dt_payload) :
        /\ dt_payload[i].cloud_provider.type = "str"
             => Len(dt_payload[i].cloud_provider.text) <= limits.attribute
        /\ dt_payload[i].attribute.type = "str"
             => Len(dt_payload[i].attribute.text) <= limits.attribute
        /\ Len(dt_payload[i].content) <= limits.content

\* C13, the case that fails: under a content limit of 4 a content of 5
\* characters went out as the 11 characters of the marker, while the
\* attributes were cut to the attribute limit of 3.
C13_Witness ==
    /\ pc = "record_done"
    /\ limits = [attribute |-> 3, content |-> 4]
    /\ Len(record.content) = 5
    /\ record.attribute = Attr("int", <<"1", "2", "3", "4", "5", "6">>)
    /\ Len(dt_payload) = 2
    /\ dt_payload[2].content = DYNATRACE_LOG_INGEST_CONTENT_MARK_TRIMMED
    /\ dt_payload[2].attribute = Attr("str", <<"1", "2", "3">>)
    /\ dt_payload[2].cloud_provider = Attr("str", <<"A", "z", "u">>)

\* A second run of the attribute and content sanitization on the parsed
\* record that process_record has just appended.
SanitizedAgain == pc = "record_done" /\ pc' = "sanitized_again"

\* C14: idempotence of the sanitization.  Running the attribute and content
\* sanitization a second time on a record it has already sanitized leaves
\* the record (and with it the payload) identical and appends nothing
\* further to too_long_content_size.
C14_SanitizationIdempotent ==
    [][SanitizedAgain
         => /\ dt_payload' = dt_payload
            /\ too_long_content_size' = too_long_content_size]_vars

\* C14, the case that fails: under a content limit of 4 a content of 14
\* characters went to 18 in the first run and to 22 in the second, and both
\* runs recorded a length.
C14_Witness ==
    /\ pc = "sanitized_again"
    /\ limits.content = 4
    /\ Len(record.content) = 14
    /\ Len(dt_payload) = 2
    /\ Len(dt_payload[2].content) = 22
    /\ too_long_content_size = <<14, 18>>

\* A step of invocation j.
StepOf(j) == invocations'[j] # invocations[j]

\* C15: isolation of invocations.  When two invocations run interleaved in
\* one process, no step of one changes the counters of the SelfMonitoring of
\* the other, nor, while the other is between its beginning and its end, the
\* log-count map (logging.log_call_count) the other is using.
C15_InvocationIsolation ==
    [][\A i \in Invocations : \A j \in Invocations \ {i} :
          StepOf(j)
            => /\ invocations'[i] = invocations[i]
               /\ invocations[i].pc = "events"
                    => log_call_count' = log_call_count]_vars

\* C15, the case that fails: invocation 1 has counted a log call in the
\* dictionary it made, invocation 2 has since begun, and the module now
\* holds the empty dictionary of invocation 2 while invocation 1 goes on.
C15_Witness ==
    /\ invocations[1].pc = "events"
    /\ invocations[1].parsing_errors = 1
    /\ invocations[1].records_left > 0
    /\ invocations[2].pc = "events"
    /\ log_call_count = [owner |-> 2, count |-> 0]

\* Whether the record at place a of the batch comes before the one at b.
Before(a, b) == a[1] < b[1] \/ (a[1] = b[1] /\ a[2] < b[2])

\* C16: order preservation.  At every point of an invocation the payload
\* holds parsed records of input records already iterated, of events that
\* passed the age check, in the order of the events and, within an event, of
\* its records array, each input record at most once; and a step never
\* removes, moves or replaces a parsed record: it keeps the payload or
\* appends to it the record parsed from the input record it iterates.
C16_OrderPreservation ==
    /\ [](\A i \in 1..Len(dt_payload) :
            /\ dt_payload[i].rid[1] \in passed
            /\ dt_payload[i].rid[1] <= ev
            /\ dt_payload[i].rid[1] = ev => dt_payload[i].rid[2] <= idx
            /\ \A j \in 1..Len(dt_payload) :
                 i < j => Before(dt_payload[i].rid, dt_payload[j].rid))
    /\ [][/\ Len(dt_payload') \in {Len(dt_payload), Len(dt_payload) + 1}
          /\ SubSeq(dt_payload', 1, Len(dt_payload)) = dt_payload
          /\ Len(dt_payload') = Len(dt_payload) + 1
               => /\ RecordStep
                  /\ dt_payload'[Len(dt_payload')].rid = <<ev, idx + 1>>
                  /\ dt_payload'[Len(dt_payload')].timestamp
                       = record'.timestamp]_vars

\* C16, the case: the first record of event 1 was appended, the second was
\* filtered out, and the record of event 2 was appended behind the first.
C16_Witness ==
    /\ pc = "returned"
    /\ tally.filtered = 1
    /\ calls["process_record"] = 3
    /\ Len(dt_payload) = 2
    /\ dt_payload[1].rid = <<1, 1>>
    /\ dt_payload[2].rid = <<2, 1>>

\* A single call of deserialize_properties on record.
DeserializeCall == pc = "age_call" /\ pc' = "deserialized"

\* The aliases that are keys of rec, by their place in the list.
AliasesIn(rec) ==
    {i \in 1..Len(azure_properties_names) :
        rec.raw[azure_properties_names[i]] # "absent"}

\* The value of rec at the first alias that is a key of rec.
AtFirstAlias(rec) ==
    rec.raw[azure_properties_names[
               CHOOSE i \in AliasesIn(rec) : \A j \in AliasesIn(rec) : i <= j]]

\* C17: properties deserialization.  A call of deserialize_properties takes
\* the first alias of the list that is a key of the record.  If the value
\* there is a non-empty JSON string, the key "properties" of the record is
\* set to the parsed value and no other key changes; if no alias is a key of
\* the record, or the value at the first one is a nested object or the empty
\* string, the record is left completely unchanged; and a non-empty string
\* that is not JSON raises a decode failure and leaves the record unchanged.
C17_PropertiesDeserialization ==
    [][DeserializeCall
         => IF AliasesIn(record) = {}
            THEN record' = record /\ exc' = "none"
            ELSE CASE AtFirstAlias(record) = "str_json" ->
                        /\ record' = [record EXCEPT !.raw["properties"] = "dict"]
                        /\ exc' = "none"
                   [] AtFirstAlias(record) = "str_bad" ->
                        /\ record' = record
                        /\ exc' = "JSONDecodeError"
                   [] OTHER ->
                        /\ record' = record
                        /\ exc' = "none"]_vars

\* C17, the case that fails: the record has no alias among its keys, and the
\* call has raised a decode failure on the string at the empty key.
C17_Witness ==
    /\ pc = "deserialized"
    /\ AliasesIn(record) = {}
    /\ record.raw[""] = "str_bad"
    /\ exc = "JSONDecodeError"

\* The places in the trace of the calls of extract_resource_id_attributes.
ResourceIdCalls(steps) == StepsOf(steps, {"extract_resource_id_attributes"})

\* Whether parse_record gets as far as line 131 on rec.
ReachesResourceId(rec) ==
    PropertiesValue(rec) # "str_bad" /\ rec.collab # "raise_early"

\* C18: resource id selection.  In a call of process_record that gets as far
\* as the resource id, extract_resource_id_attributes is invoked exactly once
\* with the value of resourceId when the record has that field, otherwise
\* exactly once with the value of _ResourceId when the record has that one,
\* and not at all when it has neither; having neither is no error: nothing
\* is raised for it and parsing_errors keeps its value.  In no call is it
\* invoked more than once.
C18_ResourceIdSelection ==
    [][RecordCall
         => LET made == ResourceIdCalls(trace')
                arg == IF record.raw["resourceId"] # "absent"
                       THEN record.raw["resourceId"]
                       ELSE record.raw["_ResourceId"]
            IN  /\ Cardinality(made) <= 1
                /\ \A i \in made : trace'[i].arg = arg /\ arg # "absent"
                /\ (ReachesResourceId(record) /\ arg # "absent")
                     => Cardinality(made) = 1
                /\ (ReachesResourceId(record) /\ arg = "absent")
                     => /\ made = {}
                        /\ parsing_errors' = parsing_errors
                        /\ record.collab \in {"ok", "raise_resource_id"}
                             => exc' = "none"]_vars

\* C18, the case: the record had both fields and the one call made was
\* given the value of resourceId.
C18_Witness ==
    /\ pc = "record_done"
    /\ record.raw["resourceId"] = "id_a"
    /\ record.raw["_ResourceId"] = "id_b"
    /\ record.collab = "ok"
    /\ exc = "none"
    /\ Cardinality(ResourceIdCalls(trace)) = 1
    /\ \E i \in ResourceIdCalls(trace) : trace[i].arg = "id_a"

\* The invocation has ended and no event body failed to decode.
EndedDecoded ==
    pc \in {"returned", "raised"} /\ exc \in {"none", "SendError"}

\* C19: outcome accounting.  Each record iterated has exactly one outcome
\* (appended, filtered out, stale, failed), read off the record itself; at
\* every point the number of parsed records in the payload is the number of
\* records whose outcome is appended, the four outcomes add up to the number
\* of records iterated, too_old_records is the number of stale events plus
\* the number of stale records, and parsing_errors is the number of failed
\* records plus the number of appended records whose timestamp could not be
\* parsed; and after an invocation in which every body decoded, the records
\* iterated are all the records of the events that passed the age check.
C19_OutcomeAccounting ==
    /\ Len(dt_payload) = tally.appended
    /\ Len(dt_payload) + tally.filtered + tally.stale + tally.failed
         = calls["process_record"]
    /\ too_old_records = tally.stale_events + tally.stale
    /\ parsing_errors = tally.failed + tally.unparseable
    /\ EndedDecoded => calls["process_record"] = tally.records

\* C19, the case: the first event was stale; of the three records of the
\* second, one failed, one was stale and one was appended although its
\* timestamp could not be parsed.
C19_Witness ==
    /\ EndedDecoded
    /\ tally = [stale_events |-> 1, records |-> 3, appended |-> 1,
                filtered |-> 0, stale |-> 1, failed |-> 1, unparseable |-> 1]
    /\ Len(dt_payload) = 1
    /\ too_old_records = 2
    /\ parsing_errors = 2

\* C20: all-or-nothing send.  send_logs is invoked at most once in an
\* invocation, and only when every event of the batch has been iterated with
\* no exception in flight; when an exception has escaped while the events
\* were being processed, send_logs has not been invoked and is not invoked
\* later, records appended before the exception notwithstanding.
C20_AllOrNothingSend ==
    /\ calls["send_logs"] <= 1
    /\ pc = "send"
         => events_left = 0 /\ records_left = 0 /\ exc = "none"
              /\ calls["send_logs"] = 0
    /\ calls["send_logs"] = 1 => events_left = 0 /\ records_left = 0
    /\ exc \notin {"none", "SendError"} => calls["send_logs"] = 0 /\ pc # "send"

\* C20, the case: two records of the first event were appended, the body of
\* the second event was not JSON, and the invocation has ended by raising
\* without a call of send_logs.
C20_Witness ==
    /\ pc = "raised"
    /\ exc = "JSONDecodeError"
    /\ ev = 2 /\ events_left = 0
    /\ Len(dt_payload) = 2
    /\ calls["send_logs"] = 0

====
